---- MODULE Spec2Model ----
(***************************************************************************)
(* Model of webtoonsaver.py: the chapter pipeline                          *)
(* (WebtoonSaver.process_chapter), its concurrent image download           *)
(* (download_image / download_images under asyncio.gather), the natural    *)
(* sort of the scratch listing (atoi / natural_keys), the parallel decode  *)
(* (load_image under ThreadPoolExecutor.map), the PDF save, and the worker *)
(* pool of run_webtoonsaver (mp.Pool.starmap).                             *)
(*                                                                         *)
(* Strings the code formats or parses (file names, chapter ids) are        *)
(* sequences of one-character strings, so that formatting an index and     *)
(* parsing it back are computed, not assumed.                              *)
(***************************************************************************)
EXTENDS Integers, Sequences, FiniteSets, TLC

(* ---------------------------- bounds ----------------------------------- *)

\* largest number of image elements on a chapter page of the two-chapter runs
MaxImages == 2

\* number of image elements on the chapter page of the long single-chapter run
BigImages == 10

\* number of chapters of the run whose task list the pool splits into chunks
ChunkChapters == 5

\* mp.cpu_count() of the host
CpuCount == 2

\* largest chapter number an index page links (numbers start at 0)
MaxChapter == 3

(* ------------------------ characters and strings ----------------------- *)

Range(s) == {s[i] : i \in 1..Len(s)}

Digits == <<"0", "1", "2", "3", "4", "5", "6", "7", "8", "9">>

\* the characters the model uses, in code-point order
Alphabet ==
    <<"-", ".", "/", "0", "1", "2", "3", "4", "5", "6", "7", "8", "9",
      "C", "I", "_", "a", "d", "e", "f", "g", "h", "i", "j", "m", "p",
      "r", "s", "t">>

Ord(ch) == CHOOSE i \in 1..Len(Alphabet) : Alphabet[i] = ch

IsDigitChar(ch) == ch \in Range(Digits)

DigitVal(ch) == (CHOOSE i \in 1..10 : Digits[i] = ch) - 1

\* str.isdigit(): non-empty and all characters digits
IsDigit(text) == Len(text) > 0 /\ \A i \in 1..Len(text) : IsDigitChar(text[i])

\* int(text) for a digit string
RECURSIVE IntOf(_)
IntOf(text) ==
    IF Len(text) = 0 THEN 0
    ELSE 10 * IntOf(SubSeq(text, 1, Len(text) - 1)) + DigitVal(text[Len(text)])

\* the decimal formatting of a natural number in an f-string
RECURSIVE Str(_)
Str(n) ==
    IF n < 10 THEN <<Digits[n + 1]>>
    ELSE Str(n \div 10) \o <<Digits[(n % 10) + 1]>>

\* length of the longest prefix of text whose characters all (dig = TRUE) or
\* none (dig = FALSE) are digits
RECURSIVE RunLen(_, _)
RunLen(text, dig) ==
    IF Len(text) = 0 \/ IsDigitChar(text[1]) # dig THEN 0
    ELSE 1 + RunLen(Tail(text), dig)

\* re.split(r"(\d+)", text): non-digit run, digit run, non-digit run, ...
RECURSIVE ReSplit(_)
ReSplit(text) ==
    LET a    == RunLen(text, FALSE)
        rest == SubSeq(text, a + 1, Len(text))
        d    == RunLen(rest, TRUE)
    IN  IF Len(rest) = 0 THEN <<SubSeq(text, 1, a)>>
        ELSE <<SubSeq(text, 1, a), SubSeq(rest, 1, d)>>
             \o ReSplit(SubSeq(rest, d + 1, Len(rest)))

\* "sub in text"
Contains(sub, text) ==
    \E i \in 1..(Len(text) - Len(sub) + 1) :
        SubSeq(text, i, i + Len(sub) - 1) = sub

(* ------------------------------ natural sort --------------------------- *)

\* atoi with the isdigit() test dropped: every run stays a string
atoi_AlwaysText(text) == [isInt |-> FALSE, n |-> 0, s |-> text]

\* WebtoonSaver.atoi: int(text) if text.isdigit() else text
atoi(text) ==
    IF IsDigit(text) THEN [isInt |-> TRUE, n |-> IntOf(text), s |-> <<>>]
    ELSE [isInt |-> FALSE, n |-> 0, s |-> text]

\* WebtoonSaver.natural_keys
natural_keys(text) ==
    LET parts == ReSplit(text) IN [i \in 1..Len(parts) |-> atoi(parts[i])]

\* Python's < on two str values (code-point lexicographic)
RECURSIVE StrLess(_, _)
StrLess(a, b) ==
    IF Len(b) = 0 THEN FALSE
    ELSE IF Len(a) = 0 THEN TRUE
    ELSE IF a[1] # b[1] THEN Ord(a[1]) < Ord(b[1])
    ELSE StrLess(Tail(a), Tail(b))

\* Python's < on two elements of a key; int against str raises TypeError in
\* Python, which natural_keys never produces for two keys at one position
ElemLess(x, y) ==
    IF x.isInt /\ y.isInt THEN x.n < y.n
    ELSE IF ~x.isInt /\ ~y.isInt THEN StrLess(x.s, y.s)
    ELSE x.isInt

\* Python's < on two lists
RECURSIVE KeyLess(_, _)
KeyLess(k1, k2) ==
    IF Len(k2) = 0 THEN FALSE
    ELSE IF Len(k1) = 0 THEN TRUE
    ELSE IF k1[1] # k2[1] THEN ElemLess(k1[1], k2[1])
    ELSE KeyLess(Tail(k1), Tail(k2))

\* alist.sort(key=self.natural_keys) applied to the listing of a directory
RECURSIVE SortNatural(_)
SortNatural(names) ==
    IF names = {} THEN <<>>
    ELSE LET m == CHOOSE x \in names :
                    \A y \in names \ {x} :
                        ~KeyLess(natural_keys(y), natural_keys(x))
         IN  <<m>> \o SortNatural(names \ {m})

(* ------------------------------ file system ---------------------------- *)

save_path == <<"C", "/">>

\* the scratch path without the chapter id in it
image_save_path_Shared(chapter_id) ==
    save_path \o <<"C", "h", "a", "p", "t", "e", "r">>
              \o <<"_", "I", "m", "a", "g", "e", "s", "/">>

\* save_path + f"Chapter{chapter_id}_Images/"
image_save_path(chapter_id) ==
    save_path \o <<"C", "h", "a", "p", "t", "e", "r">> \o chapter_id
              \o <<"_", "I", "m", "a", "g", "e", "s", "/">>

\* save_path + f"Chapter-{chapter_id}.pdf"
pdf_filename(chapter_id) ==
    save_path \o <<"C", "h", "a", "p", "t", "e", "r", "-">> \o chapter_id
              \o <<".", "p", "d", "f">>

\* f"images{idx+1}.jpg" (the name inside image_save_path)
ImageName(idx) ==
    <<"i", "m", "a", "g", "e", "s">> \o Str(idx + 1) \o <<".", "j", "p", "g">>

Absent == [type |-> "absent", files |-> {}, pages |-> <<>>]

EmptyDir == [type |-> "dir", files |-> {}, pages |-> <<>>]

\* a file the PDF writer has opened for writing and not finished
PartialFile == [type |-> "partial", files |-> {}, pages |-> <<>>]

PdfFile(pages) == [type |-> "pdf", files |-> {}, pages |-> pages]

\* a test that takes only a finished PDF for a file
isfile_OnlyComplete(node) == node.type = "pdf"

\* os.path.isfile
isfile(node) == node.type \in {"partial", "pdf"}

\* os.path.isdir
isdir(node) == node.type = "dir"

\* writing a file of a directory: replaces a file of the same name
WriteFile(node, name, content) ==
    [node EXCEPT !.files =
        {f \in node.files : f.name # name}
            \cup {[name |-> name, pos |-> content.pos, kind |-> content.kind]}]

(* ------------------------------ the site ------------------------------- *)

\* what an image URL can serve: an opaque image taller than 500, one with an
\* alpha channel, an image of height <= 500, bytes that are no image
KindCycle == <<"tall", "rgba", "short", "garbage">>

\* a chapter page of n image elements, the kinds cycling from offset o
PageOf(n, o) == [i \in 1..n |-> KindCycle[((i - 1 + o) % 4) + 1]]

ChapterId(k) == Str(k)

(* ------------------------- the chapter index --------------------------- *)

\* Python's None where the code expects an int or None
None == 0 - 1

\* a URL is the sequence of its parts between slashes
UrlWebtoonscan == <<"https:", "", "webtoonscan.com", "manhwa", "title", "">>

UrlManhwa18 == <<"https:", "", "manhwa18.cc", "webtoon", "title">>

UrlOther == <<"https:", "", "example.org", "comic", "title", "">>

\* "domain in url"
InUrl(domain, url) == \E i \in 1..Len(url) : url[i] = domain

\* the href of the chapter link of chapter k, after the comic's own path
Href(chapter_id) == <<"c", "h", "-">> \o chapter_id \o <<"/">>

NoGap == [printed |-> FALSE, missing_chap |-> 0, list |-> {}]

\* a constructor that lets an explicit chapter_range win over num_chapters
Construct_RangeWins(url, num_chapters, chapter_range) ==
    [url |-> url,
     database |-> IF InUrl("webtoonscan.com", url) THEN "webtoonscan"
                  ELSE IF InUrl("manhwa18.cc", url) THEN "manhwa18"
                  ELSE "unset",
     chapter_start |-> IF chapter_range.start # None \/ num_chapters = None
                       THEN chapter_range.start ELSE 1,
     chapter_end |-> IF chapter_range.end # None \/ num_chapters = None
                     THEN chapter_range.end ELSE num_chapters,
     chapter_urls |-> <<>>]

\* WebtoonSaver.__init__: the site table (no entry leaves `database` unset),
\* the URL, the range, which num_chapters overrides
Construct(url, num_chapters, chapter_range) ==
    [url |-> IF ~InUrl("webtoonscan.com", url) /\ InUrl("manhwa18.cc", url)
             THEN Append(url, "") ELSE url,
     database |-> IF InUrl("webtoonscan.com", url) THEN "webtoonscan"
                  ELSE IF InUrl("manhwa18.cc", url) THEN "manhwa18"
                  ELSE "unset",
     chapter_start |-> IF num_chapters # None THEN 1 ELSE chapter_range.start,
     chapter_end |-> IF num_chapters # None THEN num_chapters
                     ELSE chapter_range.end,
     chapter_urls |-> <<>>]

\* an object on which __init__ has not run
NoObject ==
    [url |-> <<>>, database |-> "unset", chapter_start |-> None,
     chapter_end |-> None, chapter_urls |-> <<>>]

\* re.findall(r"\d+", chapter_url)[0]
FirstDigits(text) == ReSplit(text)[2]

\* the value stored for a chapter link
ChapterUrl(obj, href) ==
    IF InUrl("webtoonscan.com", obj.url)
    THEN [prefix |-> <<>>, href |-> href]
    ELSE [prefix |-> SubSeq(obj.url, 1, Len(obj.url) - 3), href |-> href]

\* the loop over the chapter elements: an ordered dict, as the sequence of its
\* items; a key seen again keeps its place and takes the new value
RECURSIVE BuildIndex(_, _)
BuildIndex(obj, page) ==
    IF Len(page) = 0 THEN <<>>
    ELSE LET prev  == BuildIndex(obj, SubSeq(page, 1, Len(page) - 1))
             href  == page[Len(page)]
             entry == [id |-> FirstDigits(href), url |-> ChapterUrl(obj, href)]
         IN  IF \E i \in 1..Len(prev) : prev[i].id = entry.id
             THEN [i \in 1..Len(prev) |->
                      IF prev[i].id = entry.id THEN entry ELSE prev[i]]
             ELSE Append(prev, entry)

\* list(chapter_urls.keys())
Keys(index) == [i \in 1..Len(index) |-> index[i].id]

\* a report whose set difference is taken the other way round
GapReport_DifferenceReversed(index) ==
    LET last_chapter  == IntOf(index[1].id)
        first_chapter == IntOf(index[Len(index)].id)
        missing_chap  == last_chapter - Len(index)
    IN  IF missing_chap > 0
        THEN [printed |-> TRUE, missing_chap |-> missing_chap,
              list |-> {IntOf(index[i].id) : i \in 1..Len(index)}
                          \ (first_chapter..last_chapter)]
        ELSE NoGap

\* "Print the chapters that weren't parsed", for a non-empty index
GapReport(index) ==
    LET last_chapter  == IntOf(index[1].id)
        first_chapter == IntOf(index[Len(index)].id)
        missing_chap  == last_chapter - Len(index)
    IN  IF missing_chap > 0
        THEN [printed |-> TRUE, missing_chap |-> missing_chap,
              list |-> (first_chapter..last_chapter)
                          \ {IntOf(index[i].id) : i \in 1..Len(index)}]
        ELSE NoGap

\* the truth value of an int-or-None in an if
Truthy(x) == x # None /\ x # 0

\* the two filters over chapter_urls.items()
FilterRange(index, chapter_start, chapter_end) ==
    LET a == IF Truthy(chapter_start)
             THEN SelectSeq(index, LAMBDA e : IntOf(e.id) >= chapter_start)
             ELSE index
    IN  IF Truthy(chapter_end)
        THEN SelectSeq(a, LAMBDA e : IntOf(e.id) <= chapter_end)
        ELSE a

(* ------------------------------- state --------------------------------- *)

VARIABLES
    tasks,              \* run_webtoonsaver: the chapter ids of `tasks`, in order
    site,               \* chapter id -> the image kinds its chapter page lists
    n_workers,          \* run_webtoonsaver: the size of the pool
    pool,               \* "none", "running", "finished", "raised", "interrupted"
    pc,                 \* chapter id -> position of its process_chapter call
    image_urls,         \* process_chapter: image_urls (what each URL serves)
    dl,                 \* chapter id -> state of each download_image task
    downloaded_indexes, \* process_chapter: downloaded_indexes
    imagelist,          \* process_chapter: imagelist (names, sorted)
    im,                 \* process_chapter: results of executor.map(load_image)
    fs,                 \* path -> node of the file system
    netCalls,           \* chapter id -> HTTP requests issued by the current call
    report,             \* chapter id -> the discrepancy line printed, if any
    main,               \* run_webtoonsaver: position, arguments, index page,
                        \* requests issued, exception, gap line printed
    comic_obj           \* the attributes of the WebtoonSaver object

vars == <<tasks, site, n_workers, pool, pc, image_urls, dl, downloaded_indexes,
          imagelist, im, fs, netCalls, report, main, comic_obj>>

Ids == Range(tasks)

NoReport == [printed |-> FALSE, downloaded |-> 0, requested |-> 0]

Todo == [st |-> "todo", pos |-> 0, mode |-> "-"]

NoImage == [st |-> "none", pos |-> 0, mode |-> "-"]

(* ------------------------------ the pool ------------------------------- *)

\* run_webtoonsaver: n_workers from the argument and mp.cpu_count()
PoolSize(arg) ==
    IF arg = -1 THEN CpuCount
    ELSE IF arg > CpuCount THEN CpuCount ELSE arg

\* Pool._map_async: the chunk size starmap gives the task list
chunksize ==
    IF Len(tasks) = 0 THEN 0
    ELSE LET q == Len(tasks) \div (n_workers * 4)
             r == Len(tasks) % (n_workers * 4)
         IN  IF r # 0 THEN q + 1 ELSE q

TaskIdx(c) == CHOOSE t \in 1..Len(tasks) : tasks[t] = c

ChunkOf(t) == ((t - 1) \div chunksize) + 1

ChunkTasks(k) == {t \in 1..Len(tasks) : ChunkOf(t) = k}

Chunks == {ChunkOf(t) : t \in 1..Len(tasks)}

FirstOf(k) == (k - 1) * chunksize + 1

ChunkStarted(k) == pc[tasks[FirstOf(k)]] # "queued"

\* a chunk ends when its last task returns or when one of its tasks raises
ChunkDone(k) ==
    \/ \A t \in ChunkTasks(k) : pc[tasks[t]] \in {"done", "skipped"}
    \/ \E t \in ChunkTasks(k) : pc[tasks[t]] = "raised"

ActiveChunks == {k \in Chunks : ChunkStarted(k) /\ ~ChunkDone(k)}

\* a worker takes the next chunk of the queue, or goes on to the next task of
\* the chunk it holds
CanStart(c) ==
    /\ pool = "running"
    /\ pc[c] = "queued"
    /\ LET t == TaskIdx(c)
           k == ChunkOf(t)
       IN  IF t = FirstOf(k)
           THEN /\ Cardinality(ActiveChunks) < n_workers
                /\ \A j \in Chunks : j < k => ChunkStarted(j)
           ELSE pc[tasks[t - 1]] \in {"done", "skipped"}

(* --------------------------- process_chapter --------------------------- *)

\* if os.path.isfile(pdf_filename) is true: nothing to do
GateSkip(c) ==
    /\ CanStart(c)
    /\ isfile(fs[pdf_filename(c)])
    /\ pc' = [pc EXCEPT ![c] = "skipped"]
    /\ UNCHANGED <<main, comic_obj, tasks, site, n_workers, pool, image_urls, dl,
                   downloaded_indexes, imagelist, im, fs, netCalls, report>>

\* a gate that keeps a scratch directory that is already there
GateEnter_KeepsScratch(c) ==
    /\ CanStart(c)
    /\ ~isfile(fs[pdf_filename(c)])
    /\ fs' = [fs EXCEPT ![image_save_path(c)] =
                 IF isdir(@) THEN @ ELSE EmptyDir]
    /\ pc' = [pc EXCEPT ![c] = "fetch"]
    /\ UNCHANGED <<main, comic_obj, tasks, site, n_workers, pool, image_urls,
                   dl, downloaded_indexes, imagelist, im, netCalls, report>>

\* otherwise: rmtree the scratch directory if it is there, then mkdir
GateEnter(c) ==
    /\ CanStart(c)
    /\ ~isfile(fs[pdf_filename(c)])
    /\ fs' = [fs EXCEPT ![image_save_path(c)] = EmptyDir]
    /\ pc' = [pc EXCEPT ![c] = "fetch"]
    /\ UNCHANGED <<main, comic_obj, tasks, site, n_workers, pool, image_urls, dl,
                   downloaded_indexes, imagelist, im, netCalls, report>>

\* requests.get(chapter_url) answers: the image URLs are extracted and the
\* download tasks are created
FetchPage(c) ==
    /\ pool = "running"
    /\ pc[c] = "fetch"
    /\ netCalls' = [netCalls EXCEPT ![c] = @ + 1]
    /\ image_urls' = [image_urls EXCEPT ![c] = site[c]]
    /\ dl' = [dl EXCEPT ![c] = [i \in 1..Len(site[c]) |-> "pending"]]
    /\ pc' = [pc EXCEPT ![c] = "download"]
    /\ UNCHANGED <<main, comic_obj, tasks, site, n_workers, pool, downloaded_indexes,
                   imagelist, im, fs, report>>

\* requests.get(chapter_url) raises
FetchRaise(c) ==
    /\ pool = "running"
    /\ pc[c] = "fetch"
    /\ netCalls' = [netCalls EXCEPT ![c] = @ + 1]
    /\ pc' = [pc EXCEPT ![c] = "raised"]
    /\ UNCHANGED <<main, comic_obj, tasks, site, n_workers, pool, image_urls, dl,
                   downloaded_indexes, imagelist, im, fs, report>>

\* download_image(idx = i - 1) runs to its return: the response is read and
\* written to images{idx+1}.jpg
DownloadOk(c, i) ==
    /\ pool = "running"
    /\ pc[c] = "download"
    /\ i \in 1..Len(dl[c])
    /\ dl[c][i] = "pending"
    /\ netCalls' = [netCalls EXCEPT ![c] = @ + 1]
    /\ fs' = [fs EXCEPT ![image_save_path(c)] =
                 WriteFile(@, ImageName(i - 1),
                           [pos |-> i - 1, kind |-> image_urls[c][i]])]
    /\ dl' = [dl EXCEPT ![c][i] = "done"]
    /\ UNCHANGED <<main, comic_obj, tasks, site, n_workers, pool, pc, image_urls,
                   downloaded_indexes, imagelist, im, report>>

\* download_image(idx = i - 1) raises in session.get or response.read
DownloadFail(c, i) ==
    /\ pool = "running"
    /\ pc[c] = "download"
    /\ i \in 1..Len(dl[c])
    /\ dl[c][i] = "pending"
    /\ netCalls' = [netCalls EXCEPT ![c] = @ + 1]
    /\ dl' = [dl EXCEPT ![c][i] = "failed"]
    /\ UNCHANGED <<main, comic_obj, tasks, site, n_workers, pool, pc, image_urls,
                   downloaded_indexes, imagelist, im, fs, report>>

\* a gather that lets go of the caller although a task has not returned
GatherReady_NoneFailed(c) == \A i \in 1..Len(dl[c]) : dl[c][i] # "failed"

\* asyncio.gather(*tasks) has a result once every task has returned
GatherReady(c) == \A i \in 1..Len(dl[c]) : dl[c][i] = "done"

\* os.listdir, alist.sort(key=self.natural_keys), the ".jpg" filter
ListImages(node) ==
    SelectSeq(SortNatural({f.name : f \in node.files}),
              LAMBDA name : Contains(<<".", "j", "p", "g">>, name))

\* gather returns the indices; the count check, then the sorted listing
GatherReturn(c) ==
    /\ pool = "running"
    /\ pc[c] = "download"
    /\ GatherReady(c)
    /\ LET idxs == [i \in 1..Len(dl[c]) |-> i - 1]
           lst  == ListImages(fs[image_save_path(c)])
       IN  /\ downloaded_indexes' = [downloaded_indexes EXCEPT ![c] = idxs]
           /\ report' = [report EXCEPT ![c] =
                  IF Len(idxs) # Len(image_urls[c])
                  THEN [printed |-> TRUE, downloaded |-> Len(idxs),
                        requested |-> Len(image_urls[c])]
                  ELSE @]
           /\ imagelist' = [imagelist EXCEPT ![c] = lst]
           /\ im' = [im EXCEPT ![c] = [j \in 1..Len(lst) |-> Todo]]
    /\ pc' = [pc EXCEPT ![c] = "decode"]
    /\ UNCHANGED <<main, comic_obj, tasks, site, n_workers, pool, image_urls, dl, fs, netCalls>>

\* a task has raised: gather passes the exception to process_chapter, which
\* has no handler; asyncio.run then cancels the tasks still pending
GatherRaise(c) ==
    /\ pool = "running"
    /\ pc[c] = "download"
    /\ \E i \in 1..Len(dl[c]) : dl[c][i] = "failed"
    /\ dl' = [dl EXCEPT ![c] =
                 [i \in 1..Len(dl[c]) |->
                     IF dl[c][i] = "pending" THEN "cancelled" ELSE dl[c][i]]]
    /\ pc' = [pc EXCEPT ![c] = "raised"]
    /\ UNCHANGED <<main, comic_obj, tasks, site, n_workers, pool, image_urls,
                   downloaded_indexes, imagelist, im, fs, netCalls, report>>

\* img.mode of a decoded image
ModeOf(kind) == IF kind = "rgba" THEN "RGBA" ELSE "RGB"

\* the height test of load_image
MinHeight == 500

\* Image.open raises UnidentifiedImageError for bytes that are no image
Decodes(kind) == kind # "garbage"

\* img.height of a decoded image
HeightOf(kind) ==
    IF kind = "tall" THEN 600 ELSE IF kind = "rgba" THEN 501 ELSE 500

\* load_image without the height test
load_image_NoHeightTest(node, name) ==
    IF \E f \in node.files : f.name = name
    THEN LET f == CHOOSE g \in node.files : g.name = name
         IN  IF ~Decodes(f.kind) THEN NoImage
             ELSE [st |-> "img", pos |-> f.pos, mode |-> "RGB"]
    ELSE NoImage

\* load_image(image_path): Image.open, the height test, the RGBA conversion;
\* None for a small image and for UnidentifiedImageError
load_image(node, name) ==
    IF \E f \in node.files : f.name = name
    THEN LET f == CHOOSE g \in node.files : g.name = name
         IN  IF ~Decodes(f.kind) THEN NoImage
             ELSE IF HeightOf(f.kind) > MinHeight
             THEN [st |-> "img", pos |-> f.pos,
                   mode |-> IF ModeOf(f.kind) = "RGBA" THEN "RGB"
                            ELSE ModeOf(f.kind)]
             ELSE NoImage
    ELSE NoImage

\* one call of load_image by a thread of the executor, in any order
LoadImage(c, j) ==
    /\ pool = "running"
    /\ pc[c] = "decode"
    /\ j \in 1..Len(im[c])
    /\ im[c][j].st = "todo"
    /\ im' = [im EXCEPT ![c][j] =
                 load_image(fs[image_save_path(c)], imagelist[c][j])]
    /\ UNCHANGED <<main, comic_obj, tasks, site, n_workers, pool, pc, image_urls, dl,
                   downloaded_indexes, imagelist, fs, netCalls, report>>

\* im_list = [img for img in im_list if img is not None]
im_list(c) == SelectSeq(im[c], LAMBDA r : r.st = "img")

\* a save that is called whether or not an image is left
Collect_AlwaysSave(c) ==
    /\ pool = "running"
    /\ pc[c] = "decode"
    /\ \A j \in 1..Len(im[c]) : im[c][j].st # "todo"
    /\ fs' = [fs EXCEPT ![pdf_filename(c)] = PartialFile]
    /\ pc' = [pc EXCEPT ![c] = "saving"]
    /\ UNCHANGED <<main, comic_obj, tasks, site, n_workers, pool, image_urls,
                   dl, downloaded_indexes, imagelist, im, netCalls, report>>

\* executor.map has every result; with images left, save opens the PDF file
Collect(c) ==
    /\ pool = "running"
    /\ pc[c] = "decode"
    /\ \A j \in 1..Len(im[c]) : im[c][j].st # "todo"
    /\ IF Len(im_list(c)) > 0
       THEN /\ fs' = [fs EXCEPT ![pdf_filename(c)] = PartialFile]
            /\ pc' = [pc EXCEPT ![c] = "saving"]
       ELSE /\ fs' = fs
            /\ pc' = [pc EXCEPT ![c] = "cleanup"]
    /\ UNCHANGED <<main, comic_obj, tasks, site, n_workers, pool, image_urls, dl,
                   downloaded_indexes, imagelist, im, netCalls, report>>

\* im_list[0].save(..., append_images=im_list[1:]) writes every page
SaveEnd(c) ==
    /\ pool = "running"
    /\ pc[c] = "saving"
    /\ fs' = [fs EXCEPT ![pdf_filename(c)] =
                 PdfFile([j \in 1..Len(im_list(c)) |->
                            [pos |-> im_list(c)[j].pos,
                             mode |-> im_list(c)[j].mode]])]
    /\ pc' = [pc EXCEPT ![c] = "cleanup"]
    /\ UNCHANGED <<main, comic_obj, tasks, site, n_workers, pool, image_urls, dl,
                   downloaded_indexes, imagelist, im, netCalls, report>>

\* save raises while writing: Image.save removes the file it had created
SaveRaise(c) ==
    /\ pool = "running"
    /\ pc[c] = "saving"
    /\ fs' = [fs EXCEPT ![pdf_filename(c)] = Absent]
    /\ pc' = [pc EXCEPT ![c] = "raised"]
    /\ UNCHANGED <<main, comic_obj, tasks, site, n_workers, pool, image_urls, dl,
                   downloaded_indexes, imagelist, im, netCalls, report>>

\* a cleanup that removes the scratch directory only after a save
Cleanup_OnlyAfterSave(c) ==
    /\ pool = "running"
    /\ pc[c] = "cleanup"
    /\ fs' = [fs EXCEPT ![image_save_path(c)] =
                 IF isfile(fs[pdf_filename(c)]) THEN Absent ELSE @]
    /\ pc' = [pc EXCEPT ![c] = "done"]
    /\ UNCHANGED <<main, comic_obj, tasks, site, n_workers, pool, image_urls,
                   dl, downloaded_indexes, imagelist, im, netCalls, report>>

\* rmtree(image_save_path), the last statement
Cleanup(c) ==
    /\ pool = "running"
    /\ pc[c] = "cleanup"
    /\ fs' = [fs EXCEPT ![image_save_path(c)] = Absent]
    /\ pc' = [pc EXCEPT ![c] = "done"]
    /\ UNCHANGED <<main, comic_obj, tasks, site, n_workers, pool, image_urls, dl,
                   downloaded_indexes, imagelist, im, netCalls, report>>

(* ------------------------------ the run -------------------------------- *)

\* p.starmap returns, or raises the first exception, once every chunk ended
RunEnd ==
    /\ pool = "running"
    /\ \A k \in Chunks : ChunkStarted(k) /\ ChunkDone(k)
    /\ pool' = IF \E c \in Ids : pc[c] = "raised" THEN "raised" ELSE "finished"
    /\ UNCHANGED <<main, comic_obj, tasks, site, n_workers, pc, image_urls, dl,
                   downloaded_indexes, imagelist, im, fs, netCalls, report>>

Running(c) == pc[c] \notin {"queued", "skipped", "done", "raised", "killed"}

\* the processes of the run are killed from outside (signal, power loss)
Interrupt ==
    /\ pool = "running"
    /\ pool' = "interrupted"
    /\ pc' = [c \in Ids |-> IF Running(c) THEN "killed" ELSE pc[c]]
    /\ UNCHANGED <<main, comic_obj, tasks, site, n_workers, image_urls, dl,
                   downloaded_indexes, imagelist, im, fs, netCalls, report>>

\* run_webtoonsaver is called again with the same arguments: a new pool, a
\* new call of process_chapter per task; the file system is as it was left
Rerun ==
    /\ pool # "running"
    /\ pool' = "running"
    /\ pc' = [c \in Ids |-> "queued"]
    /\ image_urls' = [c \in Ids |-> <<>>]
    /\ dl' = [c \in Ids |-> <<>>]
    /\ downloaded_indexes' = [c \in Ids |-> <<>>]
    /\ imagelist' = [c \in Ids |-> <<>>]
    /\ im' = [c \in Ids |-> <<>>]
    /\ netCalls' = [c \in Ids |-> 0]
    /\ report' = [c \in Ids |-> NoReport]
    /\ UNCHANGED <<main, comic_obj, tasks, site, n_workers, fs>>

(* --------------------------- configurations ---------------------------- *)

SmallPages == {PageOf(n, o) : n \in 0..MaxImages, o \in {0, 2}}

\* two chapters, discovered newest first, on a pool of CpuCount workers
ParallelRuns ==
    {[tasks |-> <<ChapterId(2), ChapterId(1)>>, site |-> s, arg |-> -1] :
        s \in [{ChapterId(1), ChapterId(2)} -> SmallPages]}

\* more than four chapters for one worker: starmap chunks the task list
ChunkedRuns ==
    {[tasks |-> [t \in 1..ChunkChapters |-> ChapterId(ChunkChapters + 1 - t)],
      site |-> [c \in {ChapterId(k) : k \in 1..ChunkChapters} |-> PageOf(1, 0)],
      arg |-> 1]}

\* one chapter of BigImages images
LongRuns ==
    {[tasks |-> <<ChapterId(1)>>,
      site |-> [c \in {ChapterId(1)} |-> PageOf(BigImages, 0)],
      arg |-> CpuCount + 1]}

Runs == ParallelRuns \cup ChunkedRuns \cup LongRuns

AllPaths(ids) ==
    {image_save_path(c) : c \in ids} \cup {pdf_filename(c) : c \in ids}

\* the arguments and the index page of a run of Runs: the page links the
\* run's chapters, newest first; the two-chapter runs pass num_chapters = 2
\* for a page that links a third, newer chapter
RunArgs(r) ==
    [url |-> UrlWebtoonscan,
     num_chapters |-> IF r \in ParallelRuns THEN 2 ELSE None,
     chapter_range |-> [start |-> None, end |-> None],
     n_workers |-> r.arg,
     page |-> LET ids == IF r \in ParallelRuns
                         THEN <<ChapterId(3)>> \o r.tasks ELSE r.tasks
              IN  [t \in 1..Len(ids) |-> Href(ids[t])]]

\* the state in which p.starmap starts: the object is constructed, the
\* index is built and filtered, the task list is made
Init ==
    \E r \in Runs :
        LET a     == RunArgs(r)
            obj   == Construct(a.url, a.num_chapters, a.chapter_range)
            index == BuildIndex(obj, a.page)
            kept  == FilterRange(index, obj.chapter_start, obj.chapter_end)
        IN  /\ main = [pc |-> "pool", url |-> a.url,
                       num_chapters |-> a.num_chapters,
                       chapter_range |-> a.chapter_range,
                       n_workers |-> a.n_workers, page |-> a.page,
                       requests |-> 1, err |-> "", gap |-> GapReport(index)]
            /\ comic_obj = [obj EXCEPT !.chapter_urls = kept]
            /\ tasks = Keys(kept)
            /\ site = r.site
            /\ n_workers = PoolSize(r.arg)
            /\ fs = [p \in AllPaths(Range(r.tasks)) |-> Absent]
            /\ pool = "running"
            /\ pc = [c \in Range(r.tasks) |-> "queued"]
            /\ image_urls = [c \in Range(r.tasks) |-> <<>>]
            /\ dl = [c \in Range(r.tasks) |-> <<>>]
            /\ downloaded_indexes = [c \in Range(r.tasks) |-> <<>>]
            /\ imagelist = [c \in Range(r.tasks) |-> <<>>]
            /\ im = [c \in Range(r.tasks) |-> <<>>]
            /\ netCalls = [c \in Range(r.tasks) |-> 0]
            /\ report = [c \in Range(r.tasks) |-> NoReport]

Next ==
    \/ \E c \in Ids : GateSkip(c)
    \/ \E c \in Ids : GateEnter(c)
    \/ \E c \in Ids : FetchPage(c)
    \/ \E c \in Ids : FetchRaise(c)
    \/ \E c \in Ids : \E i \in 1..Len(dl[c]) : DownloadOk(c, i)
    \/ \E c \in Ids : \E i \in 1..Len(dl[c]) : DownloadFail(c, i)
    \/ \E c \in Ids : GatherReturn(c)
    \/ \E c \in Ids : GatherRaise(c)
    \/ \E c \in Ids : \E j \in 1..Len(im[c]) : LoadImage(c, j)
    \/ \E c \in Ids : Collect(c)
    \/ \E c \in Ids : SaveEnd(c)
    \/ \E c \in Ids : SaveRaise(c)
    \/ \E c \in Ids : Cleanup(c)
    \/ RunEnd
    \/ Interrupt
    \/ Rerun

Spec == Init /\ [][Next]_vars

(* ------------------- run_webtoonsaver up to the pool ------------------- *)

pipeline == <<tasks, site, n_workers, pool, pc, image_urls, dl,
              downloaded_indexes, imagelist, im, fs, netCalls, report>>

\* comic_obj = WebtoonSaver(url=url, num_chapters=..., chapter_range=...)
NewObject ==
    /\ main.pc = "start"
    /\ comic_obj' = Construct(main.url, main.num_chapters, main.chapter_range)
    /\ main' = [main EXCEPT !.pc = "constructed"]
    /\ UNCHANGED pipeline

\* getChapterURLs: requests.get(self.url) raises
IndexFetchRaise ==
    /\ main.pc = "constructed"
    /\ main' = [main EXCEPT !.pc = "raised", !.requests = @ + 1,
                            !.err = "RequestException"]
    /\ UNCHANGED <<comic_obj, pipeline>>

\* getChapterURLs: the page is fetched; self.database does not exist
NoDatabaseRaise ==
    /\ main.pc = "constructed"
    /\ comic_obj.database = "unset"
    /\ main' = [main EXCEPT !.pc = "raised", !.requests = @ + 1,
                            !.err = "AttributeError"]
    /\ UNCHANGED <<comic_obj, pipeline>>

\* getChapterURLs: no chapter element; list(self.chapter_urls.keys())[0]
EmptyIndexRaise ==
    /\ main.pc = "constructed"
    /\ comic_obj.database # "unset"
    /\ Len(BuildIndex(comic_obj, main.page)) = 0
    /\ main' = [main EXCEPT !.pc = "raised", !.requests = @ + 1,
                            !.err = "IndexError"]
    /\ UNCHANGED <<comic_obj, pipeline>>

\* getChapterURLs returns: the index, the gap line, the two filters
getChapterURLs ==
    /\ main.pc = "constructed"
    /\ comic_obj.database # "unset"
    /\ LET index == BuildIndex(comic_obj, main.page)
       IN  /\ Len(index) > 0
           /\ main' = [main EXCEPT !.pc = "indexed", !.requests = @ + 1,
                                   !.gap = GapReport(index)]
           /\ comic_obj' = [comic_obj EXCEPT !.chapter_urls =
                               FilterRange(index, comic_obj.chapter_start,
                                           comic_obj.chapter_end)]
    /\ UNCHANGED pipeline

\* tasks, n_workers and the pool: the state in which p.starmap starts
StartPool ==
    /\ main.pc = "indexed"
    /\ main' = [main EXCEPT !.pc = "pool"]
    /\ LET ids == Range(Keys(comic_obj.chapter_urls))
       IN  /\ tasks' = Keys(comic_obj.chapter_urls)
           /\ n_workers' = PoolSize(main.n_workers)
           /\ pool' = "running"
           /\ pc' = [c \in ids |-> "queued"]
           /\ image_urls' = [c \in ids |-> <<>>]
           /\ dl' = [c \in ids |-> <<>>]
           /\ downloaded_indexes' = [c \in ids |-> <<>>]
           /\ imagelist' = [c \in ids |-> <<>>]
           /\ im' = [c \in ids |-> <<>>]
           /\ netCalls' = [c \in ids |-> 0]
           /\ report' = [c \in ids |-> NoReport]
    /\ UNCHANGED <<comic_obj, site, fs>>

\* index pages: every order of every set of chapter numbers 0..MaxChapter
IndexPages ==
    LET seqs == UNION {[1..n -> 0..MaxChapter] : n \in 0..(MaxChapter + 1)}
    IN  {[i \in 1..Len(q) |-> Href(ChapterId(q[i]))] :
            q \in {q \in seqs : \A i, j \in 1..Len(q) : i # j => q[i] # q[j]}}

Bound == {None} \cup 0..MaxChapter

\* the calls of run_webtoonsaver: every range and num_chapters for the first
\* site, the plain call for the two other URLs
IndexRuns ==
    {[url |-> UrlWebtoonscan, num_chapters |-> n,
      chapter_range |-> [start |-> a, end |-> b], page |-> p] :
        n \in Bound, a \in Bound, b \in Bound, p \in IndexPages}
    \cup
    {[url |-> u, num_chapters |-> None,
      chapter_range |-> [start |-> None, end |-> None], page |-> p] :
        u \in {UrlManhwa18, UrlOther}, p \in IndexPages}

PageIdsOf(page) == {FirstDigits(page[i]) : i \in 1..Len(page)}

\* run_webtoonsaver is called; nothing has run yet
InitIndex ==
    \E r \in IndexRuns :
        /\ main = [pc |-> "start", url |-> r.url,
                   num_chapters |-> r.num_chapters,
                   chapter_range |-> r.chapter_range,
                   n_workers |-> 0 - 1, page |-> r.page,
                   requests |-> 0, err |-> "", gap |-> NoGap]
        /\ comic_obj = NoObject
        /\ tasks = <<>>
        /\ site = [c \in PageIdsOf(r.page) |-> <<>>]
        /\ n_workers = 0
        /\ fs = [p \in AllPaths(PageIdsOf(r.page)) |-> Absent]
        /\ pool = "none"
        /\ pc = <<>>
        /\ image_urls = <<>>
        /\ dl = <<>>
        /\ downloaded_indexes = <<>>
        /\ imagelist = <<>>
        /\ im = <<>>
        /\ netCalls = <<>>
        /\ report = <<>>

NextIndex ==
    \/ NewObject
    \/ IndexFetchRaise
    \/ NoDatabaseRaise
    \/ EmptyIndexRaise
    \/ getChapterURLs
    \/ StartPool

SpecIndex == InitIndex /\ [][NextIndex]_vars

(* ------------------------------ properties ----------------------------- *)

Failed(c) == {i \in 1..Len(dl[c]) : dl[c][i] = "failed"}

Assembling(c) == pc[c] \in {"decode", "saving", "cleanup", "done"}

\* C1: a call of process_chapter that passed the artifact test and made the
\* scratch directory has removed it when it exits, by return or by exception.
C1_ScratchRemovedOnEveryExit ==
    \A c \in Ids :
        pc[c] \in {"done", "raised"} => fs[image_save_path(c)].type = "absent"

\* C2: a call that finds a file at the artifact path returns at once: it
\* issues no HTTP request and leaves the scratch path and the artifact as
\* they were, for as long as the call is the chapter's last one.
C2_ArtifactGate ==
    [][\A c \in Ids :
          /\ (pc[c] = "queued" /\ pc'[c] # "queued"
                /\ fs[pdf_filename(c)].type # "absent")
             => (pc'[c] = "skipped" /\ netCalls'[c] = 0 /\ fs' = fs)
          /\ (pc[c] = "skipped" /\ pc'[c] # "queued")
             => /\ pc'[c] = "skipped"
                /\ netCalls'[c] = 0
                /\ fs'[pdf_filename(c)] = fs[pdf_filename(c)]
                /\ fs'[image_save_path(c)] = fs[image_save_path(c)]]_vars

\* a second run has skipped every chapter on the artifact the first run wrote
C2_Witness ==
    /\ \E c \in Ids :
          /\ pc[c] = "skipped"
          /\ fs[pdf_filename(c)].type = "pdf"
          /\ netCalls[c] = 0
    /\ \A c \in Ids : pc[c] = "skipped"

\* C3: when some but not all downloads of a chapter fail, the call is not
\* aborted, and assembly runs on exactly the images that were downloaded.
C3_PartialFailureContinues ==
    \A c \in Ids :
        (0 < Cardinality(Failed(c)) /\ Cardinality(Failed(c)) < Len(dl[c]))
        => /\ pc[c] # "raised"
           /\ Assembling(c)
              => Len(imagelist[c]) = Len(dl[c]) - Cardinality(Failed(c))

\* C4: once the download phase of a chapter is over with a failed download,
\* a discrepancy line has been printed whose two counts differ by the number
\* of downloads that did not succeed; with no failure nothing is printed.
C4_DiscrepancyReported ==
    \A c \in Ids :
        /\ (pc[c] \in {"raised", "decode", "saving", "cleanup", "done"}
              /\ Failed(c) # {})
           => /\ report[c].printed
              /\ report[c].requested - report[c].downloaded
                    = Cardinality({i \in 1..Len(dl[c]) : dl[c][i] # "done"})
        /\ (Assembling(c) /\ \A i \in 1..Len(dl[c]) : dl[c][i] = "done")
           => ~report[c].printed

\* C5: the pages of an artifact are in strictly increasing order of the
\* request position of their images.
C5_PagesInRequestOrder ==
    \A c \in Ids :
        LET pages == fs[pdf_filename(c)].pages
        IN  \A a, b \in 1..Len(pages) : a < b => pages[a].pos < pages[b].pos

\* an artifact that holds the pages of images2.jpg and of images10.jpg
C5_Witness ==
    \E c \in Ids :
        LET pages == fs[pdf_filename(c)].pages
        IN  /\ fs[pdf_filename(c)].type = "pdf"
            /\ \E a, b \in 1..Len(pages) : pages[a].pos = 1 /\ pages[b].pos = 9

\* C6: when the run is over, also by a chapter's exception, the pipeline of
\* every task has been executed.
C6_SiblingsStillRun ==
    pool \in {"finished", "raised"} => \A c \in Ids : pc[c] # "queued"

\* C7: a step changes the scratch directory or the artifact of a chapter only
\* if it is a step of that chapter's pipeline, and it is then a step of no
\* other; the paths of two chapters differ.
C7_DisjointPaths ==
    [][\A c \in Ids :
          (\/ fs'[image_save_path(c)] # fs[image_save_path(c)]
           \/ fs'[pdf_filename(c)] # fs[pdf_filename(c)])
          => /\ pc'[c] # pc[c] \/ dl'[c] # dl[c]
             /\ \A d \in Ids \ {c} :
                   /\ pc'[d] = pc[d] /\ dl'[d] = dl[d]
                   /\ fs'[image_save_path(d)] = fs[image_save_path(d)]
                   /\ fs'[pdf_filename(d)] = fs[pdf_filename(d)]
                   /\ {image_save_path(c), pdf_filename(c)}
                        \cap {image_save_path(d), pdf_filename(d)} = {}]_vars

\* two pipelines at work at once, each with files of its own
C7_Witness ==
    \E c, d \in Ids :
        /\ c # d
        /\ pc[c] = "download" /\ fs[image_save_path(c)].files # {}
        /\ pc[d] = "saving" /\ fs[image_save_path(d)].files # {}

\* C8: while a chapter is in assembly (listing, decoding, saving, cleanup),
\* every one of its download tasks has settled.
C8_AssemblyAfterAllSettled ==
    \A c \in Ids :
        Assembling(c)
        => /\ Len(dl[c]) = Len(site[c])
           /\ \A i \in 1..Len(dl[c]) : dl[c][i] \in {"done", "failed"}

\* a chapter of several images in the decode step
C8_Witness ==
    \E c \in Ids : pc[c] = "decode" /\ Len(dl[c]) >= 2 /\ Len(imagelist[c]) >= 2

\* C9: no download task is ever cancelled.
C9_NoSiblingCancelled ==
    \A c \in Ids : \A i \in 1..Len(dl[c]) : dl[c][i] # "cancelled"

\* C10: outside the save step of its pipeline, a file at an artifact path is
\* a complete artifact.
C10_ArtifactComplete ==
    \A c \in Ids : pc[c] # "saving" => fs[pdf_filename(c)].type # "partial"

(* ----------------------- properties of the index ----------------------- *)

Indexed == main.pc \in {"indexed", "pool"}

\* the chapter numbers the index page links
PageNumbers == {IntOf(FirstDigits(main.page[i])) : i \in 1..Len(main.page)}

\* the chapter numbers of the filtered index
KeptNumbers ==
    {IntOf(comic_obj.chapter_urls[i].id) : i \in 1..Len(comic_obj.chapter_urls)}

MaxOf(S) == CHOOSE x \in S : \A y \in S : y <= x

MinOf(S) == CHOOSE x \in S : \A y \in S : x <= y

Unsupported ==
    ~InUrl("webtoonscan.com", main.url) /\ ~InUrl("manhwa18.cc", main.url)

\* C11: for a URL that matches no entry of the site table, the run does not
\* get past the construction of the object and issues no request.
C11_UnsupportedSiteFailsAtConstruction ==
    Unsupported => main.pc \in {"start", "raised"} /\ main.requests = 0

\* C12: an index page without chapter links gives an empty index without an
\* error, and a pool that is given no task.
C12_EmptyIndexIsNoError ==
    (/\ Len(main.page) = 0
     /\ ~Unsupported
     /\ main.requests > 0
     /\ main.err # "RequestException")
    => /\ Indexed
       /\ Len(comic_obj.chapter_urls) = 0
       /\ main.pc = "pool" => Len(tasks) = 0

\* C13: with an explicit range, the index keeps exactly the chapters whose
\* number is >= start, when start is given, and <= end, when end is given.
C13_RangeFilterInclusive ==
    (Indexed /\ main.num_chapters = None)
    => KeptNumbers =
          {k \in PageNumbers :
              /\ main.chapter_range.start # None => k >= main.chapter_range.start
              /\ main.chapter_range.end # None => k <= main.chapter_range.end}

\* C14: when num_chapters is given, the chapters kept are those the filter
\* keeps for start = 1 and end = num_chapters, whatever chapter_range is; for
\* num_chapters >= 1 these are the chapters numbered 1..num_chapters.
C14_NumChaptersOverridesRange ==
    (Indexed /\ main.num_chapters # None)
    => /\ Keys(comic_obj.chapter_urls)
            = Keys(FilterRange(BuildIndex(comic_obj, main.page),
                               1, main.num_chapters))
       /\ main.num_chapters >= 1
          => KeptNumbers = {k \in PageNumbers : 1 <= k /\ k <= main.num_chapters}

\* num_chapters = 2 together with a range that excludes chapters 1 and 2
C14_Witness ==
    /\ main.pc = "pool"
    /\ main.num_chapters = 2
    /\ main.chapter_range.start = 3
    /\ Len(tasks) = 2

\* the gap line as the claim has it, from the largest and the smallest number
GapAsClaimed ==
    LET missing == MaxOf(PageNumbers) - Cardinality(PageNumbers)
    IN  IF missing > 0
        THEN /\ main.gap.printed
             /\ main.gap.missing_chap = missing
             /\ main.gap.list =
                   (MinOf(PageNumbers)..MaxOf(PageNumbers)) \ PageNumbers
        ELSE ~main.gap.printed

\* C15 as stated: for every order of the links on the index page, the gap
\* line is printed exactly when max - count is positive and lists the numbers
\* of [min, max] that the index lacks.
C15_GapReportAnyOrder == Indexed => GapAsClaimed

NewestFirst ==
    /\ Len(main.page) > 0
    /\ IntOf(FirstDigits(main.page[1])) = MaxOf(PageNumbers)
    /\ IntOf(FirstDigits(main.page[Len(main.page)])) = MinOf(PageNumbers)

\* C15 as amended: the same, for an index page whose first link is the
\* chapter of the largest number and whose last link that of the smallest.
C15_GapReportNewestFirst == (Indexed /\ NewestFirst) => GapAsClaimed

\* an index with a gap, newest first, on which the line was printed
C15_Witness ==
    /\ Indexed /\ NewestFirst
    /\ main.gap.printed
    /\ main.gap.list # {}
    /\ Len(main.page) >= 2

(* ---------------------- properties of the pipeline --------------------- *)

\* the files of a directory that load_image keeps
Usable(node) ==
    {f \in node.files : Decodes(f.kind) /\ HeightOf(f.kind) > MinHeight}

\* no image URL of the chapter page serves an image that load_image keeps
NoSurvivor(c) ==
    \A i \in 1..Len(site[c]) :
        ~(Decodes(site[c][i]) /\ HeightOf(site[c][i]) > MinHeight)

\* C16: when the save is over, the artifact has one page for each scratch
\* file that decodes with a height above 500 and no other page; there is no
\* artifact when there is no such file.
C16_PagesAreUsableFiles ==
    \A c \in Ids :
        pc[c] = "cleanup"
        => LET good  == Usable(fs[image_save_path(c)])
               pages == fs[pdf_filename(c)].pages
           IN  IF good = {} THEN fs[pdf_filename(c)].type = "absent"
               ELSE /\ fs[pdf_filename(c)].type = "pdf"
                    /\ Len(pages) = Cardinality(good)
                    /\ {pages[j].pos : j \in 1..Len(pages)}
                          = {f.pos : f \in good}

\* an artifact written from a directory that also holds a small image and a
\* file that is no image
C16_Witness ==
    \E c \in Ids :
        /\ pc[c] = "cleanup"
        /\ fs[pdf_filename(c)].type = "pdf"
        /\ \E f \in fs[image_save_path(c)].files : f.kind = "short"
        /\ \E f \in fs[image_save_path(c)].files : f.kind = "garbage"

\* C17: a pipeline whose chapter has no usable image goes from the decode to
\* its return without an exception and without a save; no artifact is
\* written, and the scratch directory is gone when it returns.
C17_EmptyChapterCompletes ==
    [][\A c \in Ids :
          (NoSurvivor(c) /\ pc[c] \in {"decode", "cleanup"})
          => /\ pc'[c] \in {"decode", "cleanup", "done", "killed"}
             /\ fs'[pdf_filename(c)].type = "absent"
             /\ pc'[c] = "done" => fs'[image_save_path(c)].type = "absent"]_vars

\* a chapter page without image elements and one with only unusable images,
\* both through the pipeline
C17_Witness ==
    \E c, d \in Ids :
        /\ Len(site[c]) = 0 /\ pc[c] = "done"
        /\ Len(site[d]) > 0 /\ NoSurvivor(d) /\ pc[d] = "done"
        /\ Len(imagelist[d]) = Len(site[d])
        /\ fs[image_save_path(c)].type = "absent"
        /\ fs[image_save_path(d)].type = "absent"
        /\ fs[pdf_filename(d)].type = "absent"

\* C18: when the run is over, there is one task per chapter of the filtered
\* index and the pipeline of every task has been started and has ended.
C18_EveryTaskRun ==
    pool \in {"finished", "raised"}
    => /\ tasks = Keys(comic_obj.chapter_urls)
       /\ \A c \in Ids : pc[c] \in {"done", "skipped", "raised"}

\* C19: from the gate to the cleanup, every file of the scratch directory is
\* the file of a download task of this call that has returned; every page of
\* the artifact the call writes is from such a task.
C19_ScratchHoldsOnlyThisRun ==
    \A c \in Ids :
        /\ pc[c] \in {"fetch", "download", "decode", "saving", "cleanup",
                      "raised", "killed"}
           => \A f \in fs[image_save_path(c)].files :
                 \E i \in 1..Len(dl[c]) :
                    dl[c][i] = "done" /\ f.name = ImageName(i - 1)
        /\ pc[c] = "cleanup"
           => LET pages == fs[pdf_filename(c)].pages
              IN  \A j \in 1..Len(pages) : dl[c][pages[j].pos + 1] = "done"

\* a later run: one pipeline has made its scratch directory anew, the files
\* an interrupted run left for another chapter are still there
C19_Witness ==
    \E c, d \in Ids :
        /\ pc[c] = "fetch" /\ fs[image_save_path(c)] = EmptyDir
        /\ pc[d] = "queued" /\ fs[image_save_path(d)].files # {}

\* C20: a chapter without a usable image never has a file at its artifact
\* path, so no call for it is ever skipped.
C20_EmptyChapterNeverSkipped ==
    \A c \in Ids :
        NoSurvivor(c) => fs[pdf_filename(c)].type = "absent" /\ pc[c] # "skipped"

\* a later run (the other chapter is skipped on its artifact) is downloading
\* the images of a chapter without a usable image again
C20_Witness ==
    \E c, d \in Ids :
        /\ NoSurvivor(c) /\ Len(site[c]) > 0
        /\ pc[c] = "download" /\ netCalls[c] >= 2
        /\ pc[d] = "skipped"

====
